---- MODULE Spec2Model ----
(***************************************************************************)
(* Post Muse API (src/main.py): registration, login, bearer authorization *)
(* with the free-tier quota, the per-platform posting dispatcher, drafts   *)
(* and the deletion of posts, over the sqlite tables users, posts,         *)
(* platform_tokens and drafts.                                             *)
(*                                                                         *)
(* A request to a bearer-gated endpoint is served in two steps, as FastAPI *)
(* does: the dependency get_current_user runs first, then the handler      *)
(* body.  The handler bodies are `async def` without any await, so a body  *)
(* is one step; other requests may be served between the two steps.  The   *)
(* two steps are separate actions for a post call, whose body changes the  *)
(* counter that the dependency reads; for the other gated endpoints the    *)
(* dependency and the body are one action.                                 *)
(***************************************************************************)
EXTENDS Integers, Sequences, FiniteSets

VARIABLES
    ADMIN_SECRET,   \* os.getenv("ADMIN_SECRET"): None when not configured
    users,          \* table users: sequence of rows, a row's id is its index
    posts,          \* table posts: set of rows
    tokens,         \* table platform_tokens: ids of users with an instagram token
    postSeq,        \* number of post ids handed out by uuid4 so far
    pending,        \* post requests that passed get_current_user, body not yet run
    drafts,         \* table drafts: set of rows
    created,        \* history: per user, the number of Post rows ever inserted
    last            \* the call served by the last step, and its response

vars == <<ADMIN_SECRET, users, posts, tokens, postSeq, pending, drafts, created, last>>

----------------------------------------------------------------------------
(* Bounds of the model *)

MaxPlatforms == 2       \* longest platforms list of a post request
MaxPosts == 1           \* posts persisted in one run (one more next to the quota)
MaxPending == 1         \* post requests in flight between the two steps
                        \* (one more next to the quota)
MaxDrafts == 1          \* drafts saved in one run

----------------------------------------------------------------------------
(* Values *)

\* Python's None; every other value of a result entry is a str
None == "<None>"

QuotaLimit == 20

PLATFORMS ==
    {"bluesky", "facebook", "gmb", "instagram", "linkedin", "pinterest",
     "reddit", "snapchat", "telegram", "tiktok", "threads", "twitter", "youtube"}

\* platform names a request may carry: one per dispatcher variant, one unsupported
RequestNames == {"facebook", "instagram", "twitter", "myspace"}

RECURSIVE SeqsUpTo(_, _)
SeqsUpTo(S, n) ==
    IF n = 0 THEN {<<>>}
    ELSE LET shorter == SeqsUpTo(S, n - 1)
         IN  shorter \cup {Append(s, x) : s \in {t \in shorter : Len(t) = n - 1}, x \in S}

Emails == {"a@x.io", "A@x.io", "b@x.io"}
Passwords == {"", "pw"}
Secrets == {None, "s3cret", "guess"}
Tiers == {"free", "premium", "business", "gold"}

\* str.lower() on the addresses above
lower(e) == IF e = "A@x.io" THEN "a@x.io" ELSE e

\* pwd_context.hash / pwd_context.verify
hash(password) == <<"bcrypt", password>>
verify(password, hashed) == hashed = <<"bcrypt", password>>

\* str(uuid.uuid4()) for the api_key of the n-th user; <<"key", 0>> is nobody's
ApiKey(n) == <<"key", n>>

UserIds == 1..Len(users)

----------------------------------------------------------------------------
(* Responses *)

\* a served call and its HTTP response: the operation and its inputs, the
\* status code (0: no response yet), the detail messages, the fields of the body
Response(op, call, code, detail) ==
    [op |-> op, call |-> call, code |-> code, detail |-> detail,
     api_key |-> None, status |-> None, id |-> 0, postIds |-> <<>>,
     dispatched |-> <<>>,       \* dispatched: platforms whose publisher ran
     body |-> <<>>]             \* the user record or the list of drafts returned

NoCall == Response("none", <<>>, 0, {})

----------------------------------------------------------------------------
(* Request model UserCreateRequest *)

\* validator of confirm_password: TRUE when the field is accepted
passwords_match(v, password) ==
    ~(password /= "" /\ v /= password)

\* validator of is_admin: TRUE when the field is accepted
restrict_admin(v, admin_secret) ==
    ~(v /\ admin_secret /= ADMIN_SECRET)

\* the messages of the validators that reject req; {} when req is accepted
UserCreateRequest(req) ==
    (IF passwords_match(req.confirm_password, req.password)
     THEN {} ELSE {"Passwords do not match"})
    \cup
    (IF restrict_admin(req.is_admin, req.admin_secret)
     THEN {} ELSE {"Invalid admin secret"})

----------------------------------------------------------------------------
(* Authorization *)

\* faulty variant: a key that matches no row resolves to the first user
AuthLookupFirstUser(token) ==
    LET rows == {u \in UserIds : users[u].api_key = token}
    IN  IF rows = {} /\ UserIds = {}
        THEN [code |-> 401, detail |-> "Invalid API key", user |-> 0]
        ELSE [code |-> 200, detail |-> "", user |-> CHOOSE u \in UserIds : TRUE]

\* faulty variant: the quota test is an equality
AuthLookupExactLimit(token) ==
    LET rows == {u \in UserIds : users[u].api_key = token}
    IN  IF rows = {} THEN [code |-> 401, detail |-> "Invalid API key", user |-> 0]
        ELSE LET u == CHOOSE r \in rows : TRUE
             IN  IF users[u].tier = "free" /\ users[u].monthly_posts = QuotaLimit
                 THEN [code |-> 429, detail |-> "Free tier limit reached", user |-> 0]
                 ELSE [code |-> 200, detail |-> "", user |-> u]

\* the try block of get_current_user: the exception it raises, or the user id
AuthLookup(token) ==
    LET rows == {u \in UserIds : users[u].api_key = token}
    IN  IF rows = {} THEN [code |-> 401, detail |-> "Invalid API key", user |-> 0]
        ELSE LET u == CHOOSE r \in rows : TRUE
             IN  IF users[u].tier = "free" /\ users[u].monthly_posts >= QuotaLimit
                 THEN [code |-> 429, detail |-> "Free tier limit reached", user |-> 0]
                 ELSE [code |-> 200, detail |-> "", user |-> u]

\* get_current_user: `except Exception` also catches the HTTPException raised
\* inside the try block and raises 401 in its place
get_current_user(token) ==
    LET r == AuthLookup(token)
    IN  IF r.code = 200 THEN r
        ELSE [code |-> 401, detail |-> "Invalid API key", user |-> 0]

----------------------------------------------------------------------------
(* Publishers *)

Success(platform) ==
    [platform |-> platform, status |-> "success", id |-> "id", postUrl |-> "url"]
Error(platform, message) ==
    [platform |-> platform, status |-> "error", id |-> None, error |-> message]

\* get_platform_token(user_id, "instagram"): TRUE when a row exists
get_platform_token(user_id) == user_id \in tokens

\* post_to_instagram: the results it can return
post_to_instagram(user_id) ==
    IF ~get_platform_token(user_id)
    THEN {Error("instagram", "No Instagram token")}
    ELSE {Success("instagram"), Error("instagram", "transport")}

\* get_twitter_client: TRUE when the client is built, FALSE when it raises 403
get_twitter_client(user_id) ==
    user_id \in UserIds /\ users[user_id].is_admin

\* twitter branch of the loop: every exception becomes an error entry
post_to_twitter(user_id) ==
    IF get_twitter_client(user_id)
    THEN {Success("twitter"), Error("twitter", "transport")}
    ELSE {Error("twitter", "403")}

\* one iteration of the loop of create_post: the entries it can append
Publish(user_id, platform) ==
    IF platform = "twitter" THEN post_to_twitter(user_id)
    ELSE IF platform = "instagram" THEN post_to_instagram(user_id)
    ELSE {Success(platform)}

\* the loop of create_post: every post_ids list it can build
RECURSIVE Dispatch(_, _)
Dispatch(user_id, platforms) ==
    IF platforms = <<>> THEN {<<>>}
    ELSE {<<e>> \o rest : e \in Publish(user_id, Head(platforms)),
                          rest \in Dispatch(user_id, Tail(platforms))}

\* faulty variant: any(...) in place of all(...)
ValidPlatformsAny(platforms) ==
    platforms = <<>> \/ \E k \in 1..Len(platforms) : platforms[k] \in PLATFORMS

\* all(p in PLATFORMS for p in request.platforms)
ValidPlatforms(platforms) ==
    \A k \in 1..Len(platforms) : platforms[k] \in PLATFORMS

\* faulty variant: only the first requested platform is looked at
TwitterDeniedFirstOnly(platforms, is_admin) ==
    Len(platforms) > 0 /\ platforms[1] = "twitter" /\ ~is_admin

\* "twitter" in request.platforms and not is_admin
TwitterDenied(platforms, is_admin) ==
    (\E k \in 1..Len(platforms) : platforms[k] = "twitter") /\ ~is_admin

\* PostResponse(postIds=...): List[Dict[str, str]] accepts only str values
PostResponse(post_ids) ==
    \A k \in 1..Len(post_ids) : post_ids[k].id /= None

\* faulty variant: the flag is ignored
PostStatusAlwaysSuccess(requiresApproval) == "success"

\* "awaiting_approval" if request.requiresApproval else "success"
PostStatus(requiresApproval) ==
    IF requiresApproval THEN "awaiting_approval" ELSE "success"

----------------------------------------------------------------------------
(* Operations *)

\* faulty variant: a users table without UNIQUE on email
InsertUserOKNoEmail(row) ==
    \A u \in UserIds :
        /\ users[u].id /= row.id
        /\ users[u].api_key /= row.api_key

\* INSERT INTO users: TRUE when no PRIMARY KEY or UNIQUE constraint is violated
InsertUserOK(row) ==
    \A u \in UserIds :
        /\ users[u].id /= row.id
        /\ users[u].email /= row.email
        /\ users[u].api_key /= row.api_key

\* POST /api/user: the handler create_user, called with a validated request
create_user(req) ==
    LET row == [id |-> Len(users) + 1,
                email |-> lower(req.email),
                password |-> hash(req.password),
                api_key |-> ApiKey(Len(users) + 1),
                tier |-> req.tier,
                monthly_posts |-> 0,
                is_admin |-> req.is_admin]
    IN  /\ IF ~InsertUserOK(row)
           THEN /\ last' = Response("register", req, 400, {"User exists"})
                /\ users' = users
                /\ created' = created
           ELSE /\ last' = [Response("register", req, 200, {}) EXCEPT !.api_key = row.api_key]
                /\ users' = Append(users, row)
                /\ created' = Append(created, 0)
        /\ UNCHANGED <<ADMIN_SECRET, posts, tokens, postSeq, pending, drafts>>

\* the try block of login_user: the api_key it returns, or the exception it raises
LoginLookup(email, password) ==
    LET rows == {u \in UserIds : users[u].email = lower(email)}
    IN  IF rows /= {} /\ verify(password, users[CHOOSE u \in rows : TRUE].password)
        THEN [code |-> 200, detail |-> "Login successful",
              api_key |-> users[CHOOSE u \in rows : TRUE].api_key]
        ELSE [code |-> 401, detail |-> "Invalid email or password", api_key |-> None]

\* POST /api/login: `except Exception` also catches the HTTPException(401)
\* raised inside the try block and raises 500 in its place
login_user(email, password) ==
    LET r == LoginLookup(email, password)
        call == [email |-> email, password |-> password]
    IN  /\ last' = IF r.code = 200
                   THEN [Response("login", call, 200, {r.detail}) EXCEPT !.api_key = r.api_key]
                   ELSE Response("login", call, 500, {"Login error"})
        /\ UNCHANGED <<ADMIN_SECRET, users, posts, tokens, postSeq, pending, drafts, created>>

\* POST /api/user: FastAPI builds the UserCreateRequest from the body and
\* answers 422 when a validator rejects it, else calls create_user
RegisterCall(req) ==
    IF UserCreateRequest(req) /= {}
    THEN /\ last' = Response("register", req, 422, UserCreateRequest(req))
         /\ UNCHANGED <<ADMIN_SECRET, users, posts, tokens, postSeq, pending, drafts, created>>
    ELSE create_user(req)

\* the OAuth callback (not part of main.py) stores an instagram token
StoreToken(user_id) ==
    /\ user_id \in UserIds \ tokens
    /\ tokens' = tokens \cup {user_id}
    /\ last' = Response("oauth", user_id, 200, {})
    /\ UNCHANGED <<ADMIN_SECRET, users, posts, postSeq, pending, drafts, created>>

\* POST /api/post, first step: the dependency get_current_user, whose error
\* is the response of the call;
\* at most inFlight authorized requests wait for their body
AuthorizePost(token, inFlight) ==
    LET r == get_current_user(token)
    IN  /\ IF r.code /= 200
           THEN /\ last' = Response("authorize", token, r.code, {r.detail})
                /\ pending' = pending
           ELSE /\ Len(pending) < inFlight
                /\ last' = Response("authorize", token, 0, {})
                /\ pending' = Append(pending, r.user)
        /\ UNCHANGED <<ADMIN_SECRET, users, posts, tokens, postSeq, drafts, created>>

Remove(seq, i) == SubSeq(seq, 1, i - 1) \o SubSeq(seq, i + 1, Len(seq))

\* faulty variant: the counter grows by one per result entry
PersistPerPlatform(user_id, row) ==
    /\ posts' = posts \cup {row}
    /\ users' = [users EXCEPT ![user_id].monthly_posts = @ + Len(row.post_ids)]
    /\ created' = [created EXCEPT ![user_id] = @ + 1]

\* faulty variant: the row is committed without the UPDATE of the counter
PersistInsertOnly(user_id, row) ==
    /\ posts' = posts \cup {row}
    /\ users' = users
    /\ created' = [created EXCEPT ![user_id] = @ + 1]

\* faulty variant: the counter is left alone when a platform failed
PersistUnlessFailed(user_id, row) ==
    /\ posts' = posts \cup {row}
    /\ users' = IF \E k \in 1..Len(row.post_ids) : row.post_ids[k].status = "error"
                THEN users
                ELSE [users EXCEPT ![user_id].monthly_posts = @ + 1]
    /\ created' = [created EXCEPT ![user_id] = @ + 1]

\* INSERT INTO posts ...; UPDATE users SET monthly_posts = monthly_posts + 1; commit
Persist(user_id, row) ==
    /\ posts' = posts \cup {row}
    /\ users' = [users EXCEPT ![user_id].monthly_posts = @ + 1]
    /\ created' = [created EXCEPT ![user_id] = @ + 1]

\* POST /api/post, second step: the body of create_post for the i-th request
\* in flight; at most budget posts are persisted in a run
create_post(i, request, budget) ==
    LET user_id == pending[i]
        is_admin == IF user_id \in UserIds THEN users[user_id].is_admin ELSE FALSE
        status == PostStatus(request.requiresApproval)
        post_id == postSeq + 1
        call == [user_id |-> user_id, platforms |-> request.platforms,
                 requiresApproval |-> request.requiresApproval]
    IN  /\ pending' = Remove(pending, i)
        /\ IF ~ValidPlatforms(request.platforms)
           THEN /\ last' = Response("post", call, 400, {"Invalid platforms"})
                /\ UNCHANGED <<users, posts, postSeq, created>>
           ELSE IF TwitterDenied(request.platforms, is_admin)
           THEN /\ last' = Response("post", call, 403, {"Twitter posting restricted to admin users"})
                /\ UNCHANGED <<users, posts, postSeq, created>>
           ELSE /\ postSeq < budget
                /\ \E post_ids \in Dispatch(user_id, request.platforms) :
                      /\ Persist(user_id, [id |-> post_id, user_id |-> user_id,
                                           platforms |-> request.platforms,
                                           status |-> status, post_ids |-> post_ids])
                      /\ postSeq' = post_id
                      /\ last' = IF PostResponse(post_ids)
                                 THEN [Response("post", call, 200, {}) EXCEPT
                                          !.status = status, !.id = post_id,
                                          !.postIds = post_ids,
                                          !.dispatched = request.platforms]
                                 ELSE [Response("post", call, 500, {"Internal Server Error"})
                                          EXCEPT !.dispatched = request.platforms]
        /\ UNCHANGED <<ADMIN_SECRET, tokens, drafts>>

\* faulty variant: the SELECT does not filter on user_id
delete_postAnyOwner(token, post_id) ==
    LET r == get_current_user(token)
        row == {p \in posts : p.id = post_id}
        call == [token |-> token, post_id |-> post_id]
    IN  /\ IF r.code /= 200
           THEN /\ last' = Response("delete", call, r.code, {r.detail})
                /\ posts' = posts
           ELSE IF row /= {}
           THEN /\ last' = Response("delete", call, 200, {"deleted"})
                /\ posts' = {p \in posts : p.id /= post_id}
           ELSE /\ last' = Response("delete", call, 404, {"Post not found"})
                /\ posts' = posts
        /\ UNCHANGED <<ADMIN_SECRET, users, tokens, postSeq, pending, drafts, created>>

\* DELETE /api/post/{post_id}: the dependency get_current_user, then the
\* handler delete_post
delete_post(token, post_id) ==
    LET r == get_current_user(token)
        row == {p \in posts : p.id = post_id /\ p.user_id = r.user}
        call == [token |-> token, post_id |-> post_id]
    IN  /\ IF r.code /= 200
           THEN /\ last' = Response("delete", call, r.code, {r.detail})
                /\ posts' = posts
           ELSE IF row /= {}
           THEN /\ last' = Response("delete", call, 200, {"deleted"})
                /\ posts' = {p \in posts : p.id /= post_id}
           ELSE /\ last' = Response("delete", call, 404, {"Post not found"})
                /\ posts' = posts
        /\ UNCHANGED <<ADMIN_SECRET, users, tokens, postSeq, pending, drafts, created>>

\* the rows of a set of drafts, ORDER BY created_at DESC: latest id first
RECURSIVE Descending(_)
Descending(rows) ==
    IF rows = {} THEN <<>>
    ELSE LET latest == CHOOSE d \in rows : \A e \in rows : e.id <= d.id
         IN  <<latest>> \o Descending(rows \ {latest})

\* GET /api/user: the dependency get_current_user, then the handler get_user,
\* which only reads columns of the users table that no request changes
get_user(token) ==
    LET r == get_current_user(token)
        call == [token |-> token]
    IN  /\ last' = IF r.code /= 200 THEN Response("get_user", call, r.code, {r.detail})
                   ELSE IF r.user \in UserIds
                   THEN [Response("get_user", call, 200, {}) EXCEPT
                            !.body = [email |-> users[r.user].email,
                                      tier |-> users[r.user].tier,
                                      is_admin |-> users[r.user].is_admin]]
                   ELSE Response("get_user", call, 404, {"User not found"})
        /\ UNCHANGED <<ADMIN_SECRET, users, posts, tokens, postSeq, pending, drafts, created>>

\* POST /api/draft: the dependency get_current_user, then the handler
\* save_draft; at most budget drafts are saved in a run
save_draft(token, request, budget) ==
    LET r == get_current_user(token)
        draft_id == Cardinality(drafts) + 1
        call == [token |-> token, content |-> request.content, platform |-> request.platform]
    IN  /\ IF r.code /= 200
           THEN /\ last' = Response("save_draft", call, r.code, {r.detail})
                /\ drafts' = drafts
           ELSE /\ Cardinality(drafts) < budget
                /\ drafts' = drafts \cup {[id |-> draft_id, user_id |-> r.user,
                                           content |-> request.content,
                                           platform |-> request.platform]}
                /\ last' = [Response("save_draft", call, 200, {}) EXCEPT
                               !.status = "success", !.id = draft_id]
        /\ UNCHANGED <<ADMIN_SECRET, users, posts, tokens, postSeq, pending, created>>

\* GET /api/drafts: the dependency get_current_user, then the handler get_drafts
get_drafts(token) ==
    LET r == get_current_user(token)
        call == [token |-> token]
        mine == {d \in drafts : d.user_id = r.user}
    IN  /\ last' = IF r.code /= 200 THEN Response("get_drafts", call, r.code, {r.detail})
                   ELSE [Response("get_drafts", call, 200, {}) EXCEPT
                            !.body = Descending({[id |-> d.id, content |-> d.content,
                                                  platform |-> d.platform] : d \in mine})]
        /\ UNCHANGED <<ADMIN_SECRET, users, posts, tokens, postSeq, pending, drafts, created>>

----------------------------------------------------------------------------
(* Inputs *)

\* the payload the dashboard sends for a plain registration (dashboard.py)
Payload(email) ==
    [email |-> email, password |-> "pw", confirm_password |-> "pw",
     admin_secret |-> None, is_admin |-> FALSE, tier |-> "free"]

\* registration requests: the dashboard's payload for one address, and for
\* the other address, in both letter cases, the payloads an API client obtains
\* from it by changing the passwords, the admin fields or the tier
RegistrationRequests ==
    {Payload("b@x.io")} \cup
    UNION {
        {[Payload(e) EXCEPT !.password = p, !.confirm_password = c] :
            p \in Passwords, c \in Passwords}
        \cup {[Payload(e) EXCEPT !.is_admin = TRUE, !.admin_secret = s] : s \in Secrets}
        \cup {[Payload(e) EXCEPT !.tier = t] : t \in Tiers}
        : e \in Emails \ {"b@x.io"}}

\* the registrations of one admin and one plain user
PlainRegistrations ==
    {[Payload("a@x.io") EXCEPT !.is_admin = TRUE, !.admin_secret = "s3cret"],
     Payload("b@x.io")}

\* post requests: every platforms list up to MaxPlatforms names
PostRequests ==
    [platforms : SeqsUpTo(RequestNames, MaxPlatforms), requiresApproval : BOOLEAN]

\* the post request the dashboard sends: one platform, no approval
PlainPosts ==
    {[platforms |-> <<"facebook">>, requiresApproval |-> FALSE]}

\* a draft request (DraftRequest: two strings, neither validated)
DraftRequests == {[content |-> "draft", platform |-> "linkedin"]}

\* bearer credentials: the issued keys and one that was never issued
Tokens == {ApiKey(n) : n \in 0..Len(users)}

Register(requests) == \E req \in requests : RegisterCall(req)
Login == \E email \in Emails, password \in Passwords : login_user(email, password)
OAuth == \E user_id \in UserIds : StoreToken(user_id)
Authorize(inFlight) == \E token \in Tokens : AuthorizePost(token, inFlight)
Post(requests, budget) ==
    \E i \in 1..Len(pending), request \in requests : create_post(i, request, budget)
Delete == \E token \in Tokens, post_id \in 1..(postSeq + 1) : delete_post(token, post_id)
GetUser == \E token \in Tokens : get_user(token)
SaveDraft ==
    \E token \in Tokens, request \in DraftRequests : save_draft(token, request, MaxDrafts)
GetDrafts == \E token \in Tokens : get_drafts(token)

----------------------------------------------------------------------------
(* Specifications *)

\* a fresh database; the admin secret is configured or not
Init ==
    /\ ADMIN_SECRET \in {None, "s3cret"}
    /\ users = <<>>
    /\ posts = {}
    /\ tokens = {}
    /\ postSeq = 0
    /\ pending = <<>>
    /\ drafts = {}
    /\ created = <<>>
    /\ last = NoCall

\* every registration request, the dashboard's post request
Next ==
    \/ Register(RegistrationRequests)
    \/ Login
    \/ OAuth
    \/ Authorize(MaxPending)
    \/ Post(PlainPosts, MaxPosts)
    \/ Delete

Spec == Init /\ [][Next]_vars

\* a fresh database with the admin secret configured
InitPost ==
    /\ Init
    /\ ADMIN_SECRET = "s3cret"

\* an admin and a plain user, every post request
NextPost ==
    \/ Register(PlainRegistrations)
    \/ OAuth
    \/ Authorize(MaxPending)
    \/ Post(PostRequests, MaxPosts)
    \/ Delete

SpecPost == InitPost /\ [][NextPost]_vars

\* init_db opens the database an earlier run left behind (CREATE TABLE IF NOT
\* EXISTS): one user, of any tier, one post below the free-tier limit, whose
\* earlier posts are deleted
InitQuota ==
    /\ ADMIN_SECRET = "s3cret"
    /\ \E tier \in {"free", "premium", "business"} :
          users = <<[id |-> 1, email |-> "a@x.io", password |-> hash("pw"),
                     api_key |-> ApiKey(1), tier |-> tier,
                     monthly_posts |-> QuotaLimit - 1, is_admin |-> FALSE]>>
    /\ posts = {}
    /\ tokens = {}
    /\ postSeq = 0
    /\ pending = <<>>
    /\ drafts = {}
    /\ created = <<QuotaLimit - 1>>
    /\ last = NoCall

\* concurrent plain post requests next to the limit, and the other
\* bearer-gated endpoints; the plain post goes to a mock platform, so
\* instagram tokens play no part
NextQuota ==
    \/ Register(PlainRegistrations)
    \/ Authorize(MaxPending + 1)
    \/ Post(PlainPosts, MaxPosts + 1)
    \/ Delete
    \/ GetUser
    \/ SaveDraft
    \/ GetDrafts

SpecQuota == InitQuota /\ [][NextQuota]_vars

----------------------------------------------------------------------------
(* Claims about the dispatcher (SpecPost) *)

IsAdmin(user_id) == user_id \in UserIds /\ users[user_id].is_admin
Includes(platforms, name) == \E k \in 1..Len(platforms) : platforms[k] = name
Supported(platforms) == \A k \in 1..Len(platforms) : platforms[k] \in PLATFORMS
PassesGate(user_id, platforms) == ~Includes(platforms, "twitter") \/ IsAdmin(user_id)
Stored == <<users, posts>>

\* the step is the body of a post call
PostCall == last'.op = "post"
\* ... whose platforms are all supported and which passes the admin gate
Dispatching ==
    /\ PostCall
    /\ Supported(last'.call.platforms)
    /\ PassesGate(last'.call.user_id, last'.call.platforms)

\* C1: every post call whose platforms are all supported and that passes the
\* admin gate returns a result list with one entry per requested platform,
\* the i-th entry tagged with the i-th requested platform.
C1_OneResultPerPlatform ==
    [][Dispatching
        => /\ last'.code = 200
           /\ Len(last'.postIds) = Len(last'.call.platforms)
           /\ \A k \in 1..Len(last'.call.platforms) :
                 last'.postIds[k].platform = last'.call.platforms[k]]_vars

\* C2 as stated: a post call of a non-admin user whose platforms include
\* "twitter" fails with 403, dispatches nothing and stores nothing.
C2_TwitterAlwaysForbidden ==
    [][(/\ PostCall
        /\ Includes(last'.call.platforms, "twitter")
        /\ ~IsAdmin(last'.call.user_id))
        => /\ last'.code = 403
           /\ last'.postIds = <<>> /\ last'.dispatched = <<>>
           /\ UNCHANGED Stored]_vars

\* C2 amended: a post call of a non-admin user whose platforms are all
\* supported and include "twitter" fails with 403 for the whole call: nothing
\* is dispatched, no result is returned, no Post is stored and no counter changes.
C2_TwitterForbidden ==
    [][(/\ PostCall
        /\ Supported(last'.call.platforms)
        /\ Includes(last'.call.platforms, "twitter")
        /\ ~IsAdmin(last'.call.user_id))
        => /\ last'.code = 403
           /\ last'.postIds = <<>> /\ last'.dispatched = <<>>
           /\ UNCHANGED Stored]_vars

\* a non-admin was just refused a post to twitter and to a mock platform
C2_Witness ==
    /\ last.op = "post" /\ last.code = 403
    /\ ~IsAdmin(last.call.user_id)
    /\ Includes(last.call.platforms, "twitter")
    /\ Includes(last.call.platforms, "facebook")
    /\ last.dispatched = <<>>

\* C3: a post call with at least one unsupported platform name fails with 400
\* before any dispatch: no publisher runs, no Post is stored, no counter changes.
C3_InvalidPlatform ==
    [][(/\ PostCall
        /\ ~Supported(last'.call.platforms))
        => /\ last'.code = 400 /\ last'.detail = {"Invalid platforms"}
           /\ last'.postIds = <<>> /\ last'.dispatched = <<>>
           /\ UNCHANGED Stored]_vars

\* a post call with a supported and an unsupported name was just refused
C3_Witness ==
    /\ last.op = "post" /\ last.code = 400
    /\ Includes(last.call.platforms, "facebook")
    /\ Includes(last.call.platforms, "myspace")
    /\ last.dispatched = <<>>

\* C4: a post call to "instagram" and other platforms by a user without an
\* instagram token succeeds as a whole, with an error entry "No Instagram
\* token" for instagram and a success entry for every mock platform.
C4_MissingTokenIsolated ==
    [][(/\ Dispatching
        /\ Includes(last'.call.platforms, "instagram")
        /\ last'.call.user_id \notin tokens)
        => /\ last'.code = 200
           /\ Len(last'.postIds) = Len(last'.call.platforms)
           /\ \A k \in 1..Len(last'.postIds) :
                 LET name == last'.call.platforms[k] IN
                 /\ name = "instagram" =>
                       /\ last'.postIds[k].status = "error"
                       /\ last'.postIds[k].error = "No Instagram token"
                 /\ name \notin {"instagram", "twitter"} =>
                       last'.postIds[k].status = "success"]_vars

\* C6: every post call that passes platform validation and the admin gate
\* adds exactly 1 to the caller's monthly_posts, whatever the number of
\* platforms and of error entries, and changes nothing else in the users table.
C6_OneIncrementPerCall ==
    [][Dispatching
        => /\ Len(users') = Len(users)
           /\ \A u \in UserIds :
                 users'[u] = IF u = last'.call.user_id
                             THEN [users[u] EXCEPT !.monthly_posts = users[u].monthly_posts + 1]
                             ELSE users[u]]_vars

\* a call with several platforms, all of them failed, counted once for its
\* caller and not at all for the other user
C6_Witness ==
    /\ last.op = "post" /\ last.code = 500
    /\ Len(last.call.platforms) > 1
    /\ \E p \in posts :
        /\ p.user_id = last.call.user_id
        /\ \A k \in 1..Len(p.post_ids) : p.post_ids[k].status = "error"
        /\ users[p.user_id].monthly_posts = 1
        /\ \E v \in UserIds : v /= p.user_id /\ users[v].monthly_posts = 0

----------------------------------------------------------------------------
(* Claims about the quota (SpecQuota) *)

\* C5: the post call of a free-tier user with monthly_posts >= 20 is rejected
\* with 429, unlike the 401 of an unknown key; premium and business users are
\* never rejected for quota.
C5_QuotaExceeded ==
    [][last'.op = "authorize"
        => IF \A u \in UserIds : users[u].api_key /= last'.call
           THEN last'.code = 401
           ELSE \A u \in UserIds :
                  users[u].api_key = last'.call =>
                    /\ users[u].tier = "free" /\ users[u].monthly_posts >= QuotaLimit
                          => last'.code = 429
                    /\ users[u].tier \in {"premium", "business"}
                          => last'.code = 0]_vars

----------------------------------------------------------------------------
(* Claims about registration (Spec) *)

\* the step is a registration attempt
RegisterAttempt == last'.op = "register"

\* C8: every registration attempt with password /= confirm_password fails
\* with a validation error and leaves the users unchanged.
C8_PasswordMismatchRejected ==
    [][(/\ RegisterAttempt
        /\ last'.call.password /= last'.call.confirm_password)
        => /\ last'.code = 422
           /\ users' = users]_vars

\* the supplied secret is the configured one
SecretMatches(admin_secret) ==
    /\ admin_secret /= None
    /\ ADMIN_SECRET /= None
    /\ admin_secret = ADMIN_SECRET

\* C9: a registration that requests is_admin succeeds only with an
\* admin_secret that matches the configured admin secret, so every admin was
\* registered with a matching secret.
C9_AdminNeedsSecret ==
    [][(/\ RegisterAttempt
        /\ last'.call.is_admin
        /\ last'.code = 200)
        => SecretMatches(last'.call.admin_secret)]_vars

\* the same mailbox up to letter case
SameEmail(e1, e2) ==
    \/ e1 = e2
    \/ {e1, e2} = {"a@x.io", "A@x.io"}

UniqueUsers ==
    \A u, v \in UserIds :
        u /= v => /\ ~SameEmail(users[u].email, users[v].email)
                  /\ users[u].api_key /= users[v].api_key

\* C10: create_user called with an email that equals a registered one up to
\* letter case fails with 400, issues no api_key and leaves the users
\* unchanged; no two users share an email up to case, or an api_key.
C10_DuplicateEmailConflict ==
    [][/\ UniqueUsers'
       /\ (/\ RegisterAttempt
           /\ UserCreateRequest(last'.call) = {}
           /\ \E u \in UserIds : SameEmail(users[u].email, last'.call.email))
          => /\ last'.code = 400 /\ last'.detail = {"User exists"}
             /\ last'.api_key = None
             /\ users' = users]_vars

\* a registration in another letter case than a registered email was just refused
C10_Witness ==
    /\ last.op = "register" /\ last.code = 400
    /\ last.api_key = None
    /\ \E u \in UserIds :
          /\ users[u].email /= last.call.email
          /\ SameEmail(users[u].email, last.call.email)

\* the step is a login attempt
LoginAttempt == last'.op = "login"

\* the users whose email is the given one up to letter case and whose stored
\* hash is the hash of the given password
Credentialed(email, password) ==
    {u \in UserIds : SameEmail(users[u].email, email) /\ users[u].password = hash(password)}

\* C11: a login with an unknown email or a password that does not match the
\* stored hash fails with 401 and returns no api_key; a login with a matching
\* email, up to letter case, and password returns that user's api_key.
C11_LoginOutcome ==
    [][LoginAttempt
        => LET matching == Credentialed(last'.call.email, last'.call.password)
           IN  IF matching = {}
               THEN last'.code = 401 /\ last'.api_key = None
               ELSE /\ last'.code = 200
                    /\ \E u \in matching : last'.api_key = users[u].api_key]_vars

----------------------------------------------------------------------------
(* Claims about the bearer-gated endpoints (SpecQuota) *)

GatedOps == {"authorize", "delete", "get_user", "save_draft", "get_drafts"}

\* the step serves the authorization of a call to a bearer-gated endpoint
GatedCall == last'.op \in GatedOps
\* the credential of that call
Credential == IF last'.op = "authorize" THEN last'.call ELSE last'.call.token
\* the users whose api_key is the given credential
Holders(token) == {u \in UserIds : users[u].api_key = token}

Database == <<users, posts, drafts, tokens, created>>

\* C12: a call to a bearer-gated endpoint with a credential that matches no
\* stored api_key fails with 401 and changes nothing; the authorization step
\* of a post call, accepted or rejected, changes no user, post, draft or
\* counter, and neither does any rejected call nor any read (get user, list
\* drafts).
C12_AuthorizationReadOnly ==
    [][GatedCall
        => /\ Holders(Credential) = {} => last'.code = 401 /\ UNCHANGED Database
           /\ last'.op = "authorize" => UNCHANGED Database
           /\ last'.code = 401 => UNCHANGED Database
           /\ last'.op \in {"get_user", "get_drafts"} => UNCHANGED Database]_vars

\* a draft request with a key nobody holds was just refused, while a user
\* and a draft exist
C12_Witness ==
    /\ last.op = "save_draft" /\ last.code = 401
    /\ Holders(last.call.token) = {}
    /\ users /= <<>> /\ drafts /= {}

----------------------------------------------------------------------------
(* Claims about deletion (SpecPost) *)

\* the user is a free-tier user at or above the limit
Locked(u) == users[u].tier = "free" /\ users[u].monthly_posts >= QuotaLimit

\* C13: a delete by an authorized user of a post that user owns removes
\* exactly that Post and returns deleted; a delete of a post id that does not
\* exist or that another user owns returns 404 and leaves every Post
\* unchanged; no delete changes a monthly_posts counter.
C13_DeleteOwnerScoped ==
    [][last'.op = "delete"
        => /\ users' = users
           /\ \A u \in Holders(last'.call.token) :
                 ~Locked(u) =>
                    LET owned == {p \in posts : p.id = last'.call.post_id /\ p.user_id = u}
                    IN  IF owned /= {}
                        THEN /\ last'.code = 200 /\ last'.detail = {"deleted"}
                             /\ posts' = posts \ owned
                             /\ Cardinality(owned) = 1
                        ELSE /\ last'.code = 404
                             /\ posts' = posts]_vars

\* a delete of another user's post was just refused and the post is still there
C13_Witness ==
    /\ last.op = "delete" /\ last.code = 404
    /\ \E u \in Holders(last.call.token), p \in posts :
          p.id = last.call.post_id /\ p.user_id /= u

----------------------------------------------------------------------------
(* Claims about the counter and the Post records *)

\* the step inserts a Post row
Inserts == posts' \ posts /= {}

\* C14 as stated: the insert of the Post and the increment of the counter are
\* separate steps, so the step that inserts a Post leaves every counter as it
\* is and the counter of the caller lags behind until a later step.
C14_SeparateSteps ==
    [][Inserts => users' = users]_vars

\* C14 amended: the insert and the increment are one step, also when
\* another call of the same user is in flight: every step that inserts a Post
\* adds exactly one to its owner's counter, and no other step changes a
\* counter, so after every step each counter equals the number of that
\* user's post calls that inserted their Post.
C14_NoCounterRace ==
    [][/\ Inserts =>
            \E p \in posts' \ posts :
               /\ posts' = posts \cup {p}
               /\ users' = [users EXCEPT ![p.user_id].monthly_posts = @ + 1]
       /\ ~Inserts =>
            \A u \in UserIds : users'[u].monthly_posts = users[u].monthly_posts
       /\ \A u \in UserIds : users'[u].monthly_posts = created'[u]]_vars

\* two post calls of one user were authorized at QuotaLimit - 1, so they
\* were in flight together, and both are counted
C14_Witness ==
    /\ last.op = "post" /\ last.code = 200
    /\ users[last.call.user_id].tier = "free"
    /\ users[last.call.user_id].monthly_posts = QuotaLimit + 1
    /\ created[last.call.user_id] = QuotaLimit + 1

\* C15: in every state, for every user, monthly_posts equals the number of
\* Post rows ever inserted for that user, deleted ones included, and is at
\* least the number of that user's stored Posts.
C15_CounterMatchesPosts ==
    /\ Len(created) = Len(users)
    /\ \A u \in UserIds :
          /\ users[u].monthly_posts = created[u]
          /\ Cardinality({p \in posts : p.user_id = u}) <= users[u].monthly_posts

\* a user whose only Post, one with an error entry, was deleted: it still counts
C15_Witness ==
    /\ last.op = "delete" /\ last.code = 200
    /\ posts = {}
    /\ \E u \in UserIds : users[u].monthly_posts = 1 /\ created[u] = 1

----------------------------------------------------------------------------
(* Claims about tiers and the quota *)

\* C16: in every state every stored user's tier is free, premium or business.
C16_TierValid ==
    \A u \in UserIds : users[u].tier \in {"free", "premium", "business"}

\* C17: under every interleaving of post calls a free-tier user's
\* monthly_posts never exceeds 20, and no more than 20 Posts were ever
\* created for that user.
C17_QuotaNeverExceeded ==
    \A u \in UserIds :
        users[u].tier = "free" =>
            /\ users[u].monthly_posts <= QuotaLimit
            /\ created[u] <= QuotaLimit

\* C18: a call to any bearer-gated endpoint that reaches authorization with
\* the key of a free-tier user whose monthly_posts is 20 or more is rejected
\* and changes nothing, whatever the endpoint; and a user in that condition
\* stays in it, since no step lowers monthly_posts or changes a tier.
C18_LockedOut ==
    [][/\ GatedCall =>
            \A u \in Holders(Credential) :
               Locked(u) => /\ last'.code \in {401, 429}
                            /\ UNCHANGED <<Database, pending>>
       /\ \A u \in UserIds :
            /\ users'[u].tier = users[u].tier
            /\ users'[u].monthly_posts >= users[u].monthly_posts
            /\ Locked(u) => Locked(u)']_vars

\* a free-tier user at the limit was just refused the deletion of a Post
\* that user owns
C18_Witness ==
    /\ last.op = "delete" /\ last.code \in {401, 429}
    /\ \E u \in Holders(last.call.token), p \in posts :
          /\ Locked(u)
          /\ p.id = last.call.post_id /\ p.user_id = u

====
